---------------------------- MODULE Spec2Model ----------------------------
(***************************************************************************)
(* FloralCanvas (src/components/FloralCanvas.tsx): the simulation state    *)
(* held in refs, the input handlers and the per-frame render callback.     *)
(*                                                                         *)
(* Numbers.  The program computes with JavaScript doubles.  The model uses *)
(* fixed point integers:                                                   *)
(*   - pointer coordinates, stem points, flower x/y, canvas size and the   *)
(*     vase position are whole pixels;                                     *)
(*   - raindrop and particle positions and velocities, and flower radii,   *)
(*     are in 1/Unit pixel (Unit = 10000);                                 *)
(*   - flower opacity and particle life are in thousandths, raindrop       *)
(*     opacity in hundredths.                                              *)
(* Every constant of the program is a multiple of these resolutions, so    *)
(* additions and comparisons are exact; the only rounded operation is the  *)
(* bloom easing (radius gap * 0.03), rounded down.                         *)
(*                                                                         *)
(* Randomness.  Every Math.random() draw and every uuid() is a parameter   *)
(* of the action that makes it; the specifications choose them from small  *)
(* sample sets.  uuid() is modelled as a fresh identifier.                 *)
(***************************************************************************)
EXTENDS Integers, Sequences, FiniteSets, TLC

VARIABLES
    canvas,            \* [w, h]: canvas.width / canvas.height (pixels)
    vase,              \* vase.current: [x, y, currentVolume]
    rainDrops,         \* rainDrops.current: sequence of drops
    stems,             \* stems.current: sequence of stems
    flowers,           \* flowers.current: sequence of flowers
    particles,         \* particles.current: sequence of particles
    isDrawing,         \* isDrawing.current
    currentStemId,     \* currentStemId.current (NoStem = null)
    isNight,           \* React state isNight
    isNightRef,        \* isNightRef.current
    animationFrameId,  \* the handle the last requestAnimationFrame returned
    frameQueue,        \* handles of the callbacks the browser is yet to call
    listening,         \* the mount effect is live: listeners are attached
    nextId,            \* source of fresh uuid() values
    frame,             \* render calls so far, saturating (environment bound)
    accepted,          \* history: points appended since the last pointer-down
    lastTick           \* history: what the last render call did, NoTick otherwise

vars == <<canvas, vase, rainDrops, stems, flowers, particles, isDrawing,
          currentStemId, isNight, isNightRef, animationFrameId, frameQueue,
          listening, nextId, frame, accepted, lastTick>>

---------------------------------------------------------------------------
(* Program constants *)

Unit == 10000
VASE_WIDTH == 100
VASE_HEIGHT == 200
VASE_OPENING_WIDTH == 80
GRAVITY == 1500              \* 0.15 px/tick^2
maxCapacity == 5000
FillIncrement == 30
VaseBottomOffset == 80       \* vase.y = canvas.height - 80
DropStartY == -200000        \* y: -20
DropGravity == 200           \* velocity.y += 0.02
DropFadeStep == 5            \* opacity += 0.05
DropOpaque == 100            \* opacity < 1
HitBand == 20                \* drop.y < topY + 20
OverflowCount == 2           \* for (k = 0; k < 2; k++)
WaterDecay == 15             \* decay: 0.015
FullLife == 1000             \* life: 1, opacity: 1
WitherStep == 1              \* opacity -= 0.001
ShedThreshold == 100         \* opacity <= 0.1
BloomEpsilon == 5000         \* |maxRadius - radius| < 0.5
BloomNum == 3                \* (maxRadius - radius) * 0.03
BloomDen == 100
PetalAccel == 50             \* velocity.y += 0.005
ParticleMargin == 50         \* p.y > canvas.height + 50
MinSpacingSq == 25           \* dist > 5, squared
NoStem == 0                  \* currentStemId.current = null
LilyPetals == 6              \* type === 'lily' ? 6 : ...
RollScale == 1000            \* Math.random() in thousandths: 0..999
PetalScale == 100            \* random(5, 9) in hundredths: 500..899

\* const flowerTypes: FlowerType[] = ['cosmos', 'rose', 'lily']
flowerTypes == <<"cosmos", "rose", "lily">>

NoTick == [kind |-> "none"]

---------------------------------------------------------------------------
(* Bounds of the environment *)

MaxFrame == 2      \* frames that are counted (the counter stops there)
MaxIds == 3        \* uuid() values handed out to stems and flowers
MaxPoints == 2     \* points of a stem while the user may still extend it
MaxDrops == 1      \* raindrops in flight at once
MaxParticles == 2  \* particles in flight while keys may still be pressed
MaxLifeIds == 4    \* uuid() values handed out in SpecLife
MaxKindIds == 2    \* uuid() values handed out in SpecKinds
MaxUuids == 3      \* uuid() values handed out in SpecPointer
MaxStems == 3      \* stems in the store while uuid() may repeat itself
MaxPassDrops == 2  \* raindrops the user adds before each frame in SpecPass
MaxRainDrops == 2  \* raindrops in flight at once in SpecRain

---------------------------------------------------------------------------
(* Helpers *)

RemoveAt(s, i) == SubSeq(s, 1, i - 1) \o SubSeq(s, i + 1, Len(s))

Abs(n) == IF n < 0 THEN -n ELSE n

\* stems.current.findIndex(s => s.id === id): first index, 0 when absent
FindStemIndex(ss, id) ==
    IF \E i \in 1..Len(ss) : ss[i].id = id
    THEN CHOOSE i \in 1..Len(ss) :
            /\ ss[i].id = id
            /\ \A j \in 1..(i - 1) : ss[j].id # id
    ELSE 0

\* mutant: a point exactly 5 away is taken
FarEnoughOrEqual(x, y, lastPoint) ==
    (x - lastPoint.x) * (x - lastPoint.x)
        + (y - lastPoint.y) * (y - lastPoint.y) >= MinSpacingSq

\* Math.hypot(x - lastPoint.x, y - lastPoint.y) > 5
FarEnough(x, y, lastPoint) ==
    (x - lastPoint.x) * (x - lastPoint.x)
        + (y - lastPoint.y) * (y - lastPoint.y) > MinSpacingSq

---------------------------------------------------------------------------
(* Initial state: the refs as constructed (lines 47-69), then the mount    *)
(* effect (lines 71-105, 545): resize() against the container's size,      *)
(* the listeners added, and render() called once on the empty stores,      *)
(* which changes nothing and schedules the next frame.                     *)

\* mutant: resize() builds the vase record anew
RecenterFresh(v, w, h) ==
    [x |-> w \div 2, y |-> h - VaseBottomOffset, currentVolume |-> 0]

\* resize(): vase.current.x = canvas.width / 2; vase.current.y = canvas.height - 80
Recenter(v, w, h) == [v EXCEPT !.x = w \div 2, !.y = h - VaseBottomOffset]

InitWith(w, h) ==
    /\ canvas = [w |-> w, h |-> h]
    /\ vase = Recenter([x |-> 0, y |-> 0, currentVolume |-> 0], w, h)
    /\ rainDrops = <<>>
    /\ stems = <<>>
    /\ flowers = <<>>
    /\ particles = <<>>
    /\ isDrawing = FALSE
    /\ currentStemId = NoStem
    /\ isNight = FALSE
    /\ isNightRef = FALSE
    /\ animationFrameId = 1
    /\ frameQueue = {1}
    /\ listening = TRUE
    /\ nextId = 1
    /\ frame = 0
    /\ accepted = 0
    /\ lastTick = NoTick

---------------------------------------------------------------------------
(* Input handlers *)

\* window 'resize' listener
Resize(w, h) ==
    /\ listening
    /\ canvas' = [w |-> w, h |-> h]
    /\ vase' = Recenter(vase, w, h)
    /\ lastTick' = NoTick
    /\ UNCHANGED <<rainDrops, stems, flowers, particles, isDrawing,
                   currentStemId, isNight, isNightRef, animationFrameId,
                   frameQueue, listening, nextId, frame, accepted>>

\* window 'keydown' listener; key is e.key, x = random(0, canvas.width),
\* vy = random(3, 6).  velocity.x is 0 and never changes, size and id are
\* never read: they are not kept.
NewDrop(key, x, vy) ==
    [char |-> key, x |-> x, y |-> DropStartY, vy |-> vy, opacity |-> 0]

\* mutant: every key rains
handleAnyKey(key, x, vy) ==
    /\ listening
    /\ rainDrops' = Append(rainDrops, NewDrop(key, x, vy))
    /\ lastTick' = NoTick
    /\ UNCHANGED <<canvas, vase, stems, flowers, particles, isDrawing,
                   currentStemId, isNight, isNightRef, animationFrameId,
                   frameQueue, listening, nextId, frame, accepted>>

handleKeyDown(key, x, vy) ==
    /\ listening
    /\ rainDrops' = IF Len(key) = 1
                    THEN Append(rainDrops, NewDrop(key, x, vy))
                    ELSE rainDrops
    /\ lastTick' = NoTick
    /\ UNCHANGED <<canvas, vase, stems, flowers, particles, isDrawing,
                   currentStemId, isNight, isNightRef, animationFrameId,
                   frameQueue, listening, nextId, frame, accepted>>

\* the toggle button: setIsNight(!isNight); the ref follows in an effect
ToggleNight ==
    /\ listening
    /\ isNight' = ~isNight
    /\ lastTick' = NoTick
    /\ UNCHANGED <<canvas, vase, rainDrops, stems, flowers, particles,
                   isDrawing, currentStemId, isNightRef, animationFrameId,
                   frameQueue, listening, nextId, frame, accepted>>

\* useEffect(() => { isNightRef.current = isNight }, [isNight])
SyncNightRef ==
    /\ listening
    /\ isNightRef # isNight
    /\ isNightRef' = isNight
    /\ lastTick' = NoTick
    /\ UNCHANGED <<canvas, vase, rainDrops, stems, flowers, particles,
                   isDrawing, currentStemId, isNight, animationFrameId,
                   frameQueue, listening, nextId, frame, accepted>>

NewStem(id, x, y) ==
    [id |-> id, points |-> <<[x |-> x, y |-> y]>>, grown |-> FALSE]

\* lines 586-596 with the value uuid() returned
StartStem(id, x, y) ==
    /\ listening
    /\ isDrawing' = TRUE
    /\ stems' = Append(stems, NewStem(id, x, y))
    /\ currentStemId' = id
    /\ accepted' = 0
    /\ lastTick' = NoTick
    /\ UNCHANGED <<canvas, vase, rainDrops, flowers, particles, isNight,
                   isNightRef, animationFrameId,
                   frameQueue, listening, frame>>

\* pointer-down when uuid() returns a value not seen before
onPointerDown(x, y) ==
    /\ StartStem(nextId, x, y)
    /\ nextId' = nextId + 1

\* pointer-down when uuid(), seven base-36 digits of Math.random(), returns
\* a value it has returned before
onPointerDownAgain(id, x, y) ==
    /\ id \in 1..(nextId - 1)
    /\ StartStem(id, x, y)
    /\ UNCHANGED nextId

\* mutant: a grown stem is extended as well
MovedStemsGrown(x, y) ==
    LET i == FindStemIndex(stems, currentStemId) IN
    IF isDrawing /\ currentStemId # NoStem /\ i # 0
       /\ FarEnough(x, y, stems[i].points[Len(stems[i].points)])
    THEN [stems EXCEPT ![i].points = Append(@, [x |-> x, y |-> y])]
    ELSE stems

\* the stems after a pointer-move to (x, y)
MovedStems(x, y) ==
    LET i == FindStemIndex(stems, currentStemId) IN
    IF isDrawing /\ currentStemId # NoStem /\ i # 0
       /\ ~stems[i].grown
       /\ FarEnough(x, y, stems[i].points[Len(stems[i].points)])
    THEN [stems EXCEPT ![i].points = Append(@, [x |-> x, y |-> y])]
    ELSE stems

onPointerMove(x, y) ==
    /\ listening
    /\ stems' = MovedStems(x, y)
    /\ accepted' = IF stems' # stems THEN accepted + 1 ELSE accepted
    /\ lastTick' = NoTick
    /\ UNCHANGED <<canvas, vase, rainDrops, flowers, particles, isDrawing,
                   currentStemId, isNight, isNightRef, animationFrameId,
                   frameQueue, listening, nextId, frame>>

\* flowerTypes[Math.floor(Math.random() * flowerTypes.length)]
TypeOf(roll) == flowerTypes[(roll * Len(flowerTypes)) \div RollScale + 1]

\* mutant: the lily takes its petals from the draw as well
PetalsDrawn(type, raw) == raw \div PetalScale

\* type === 'lily' ? 6 : Math.floor(random(5, 9))
PetalsOf(type, raw) ==
    IF type = "lily" THEN LilyPetals ELSE raw \div PetalScale

\* mutant: the flower is put at the stem's first point
NewFlowerAtRoot(id, stem, draw) ==
    [id |-> id, stemId |-> stem.id, x |-> stem.points[1].x,
     y |-> stem.points[1].y,
     color |-> [hue |-> draw.hue, night |-> isNightRef],
     petalCount |-> PetalsOf(TypeOf(draw.typeRoll), draw.petalRoll),
     radius |-> 0, maxRadius |-> draw.maxRadius, state |-> "blooming",
     life |-> 0, maxLife |-> draw.maxLife, opacity |-> FullLife,
     type |-> TypeOf(draw.typeRoll)]

\* the flower pushed by pointer-up; draw holds the random choices
NewFlower(id, stem, draw) ==
    LET lastPoint == stem.points[Len(stem.points)] IN
    [id |-> id, stemId |-> stem.id, x |-> lastPoint.x, y |-> lastPoint.y,
     color |-> [hue |-> draw.hue, night |-> isNightRef],
     petalCount |-> PetalsOf(TypeOf(draw.typeRoll), draw.petalRoll),
     radius |-> 0, maxRadius |-> draw.maxRadius, state |-> "blooming",
     life |-> 0, maxLife |-> draw.maxLife, opacity |-> FullLife,
     type |-> TypeOf(draw.typeRoll)]

onPointerUp(draw) ==
    LET i == FindStemIndex(stems, currentStemId)
        found == isDrawing /\ currentStemId # NoStem /\ i # 0
    IN
    /\ listening
    /\ stems' = IF found THEN [stems EXCEPT ![i].grown = TRUE] ELSE stems
    /\ flowers' = IF found
                  THEN Append(flowers, NewFlower(nextId, stems[i], draw))
                  ELSE flowers
    /\ nextId' = IF found THEN nextId + 1 ELSE nextId
    /\ isDrawing' = FALSE
    /\ currentStemId' = NoStem
    /\ accepted' = 0
    /\ lastTick' = NoTick
    /\ UNCHANGED <<canvas, vase, rainDrops, particles, isNight, isNightRef,
                   animationFrameId,
                   frameQueue, listening, frame>>

\* mutant: the cleanup removes the listeners and forgets the frame
TeardownKeepsFrame ==
    /\ listening
    /\ listening' = FALSE
    /\ lastTick' = NoTick
    /\ UNCHANGED <<canvas, vase, rainDrops, stems, flowers, particles,
                   isDrawing, currentStemId, isNight, isNightRef,
                   animationFrameId, frameQueue, nextId, frame, accepted>>

\* the effect's cleanup: listeners removed, the scheduled frame cancelled;
\* the canvas and its pointer handlers go with the component
Teardown ==
    /\ listening
    /\ listening' = FALSE
    /\ frameQueue' = frameQueue \ {animationFrameId}
    /\ lastTick' = NoTick
    /\ UNCHANGED <<canvas, vase, rainDrops, stems, flowers, particles,
                   isDrawing, currentStemId, isNight, isNightRef,
                   animationFrameId, nextId, frame, accepted>>

---------------------------------------------------------------------------
(* render(): one frame.  The passes over rain, flowers and particles run   *)
(* from the last index down to the first, as the loops do.  smp holds the  *)
(* Math.random() draws made for new particles in this frame.               *)

\* mutant: the velocity grows but the drop is not moved
AdvanceDropStalls(d) ==
    [d EXCEPT !.vy = d.vy + DropGravity,
              !.opacity = IF d.opacity < DropOpaque
                          THEN d.opacity + DropFadeStep ELSE d.opacity]

\* lines 376-379
AdvanceDrop(d) ==
    LET vy == d.vy + DropGravity IN
    [d EXCEPT !.vy = vy,
              !.y = d.y + vy,
              !.opacity = IF d.opacity < DropOpaque
                          THEN d.opacity + DropFadeStep ELSE d.opacity]

\* lines 389-391; vx, topY in pixels
HitsVase(d, vx, topY) ==
    /\ d.x > (vx - VASE_OPENING_WIDTH \div 2) * Unit
    /\ d.x < (vx + VASE_OPENING_WIDTH \div 2) * Unit
    /\ d.y > topY * Unit
    /\ d.y < (topY + HitBand) * Unit

\* lines 399-409
WaterParticle(x, topY, night, smp) ==
    [x |-> x, y |-> topY * Unit, vx |-> smp.wvx, vy |-> smp.wvy,
     color |-> [water |-> TRUE, night |-> night],
     life |-> FullLife, decay |-> WaterDecay, type |-> "water"]

RECURSIVE Overflow(_, _, _, _, _, _)
Overflow(parts, k, x, topY, night, smp) ==
    IF k >= OverflowCount THEN parts
    ELSE Overflow(Append(parts, WaterParticle(x, topY, night, smp)),
                  k + 1, x, topY, night, smp)

\* lines 393-412: the volume after a hit
Filled(volume) ==
    IF volume < maxCapacity THEN volume + FillIncrement ELSE volume

\* mutant: the splash is not in the else branch
SplashedAlways(parts, volume, x, topY, night, smp) ==
    Overflow(parts, 0, x, topY, night, smp)

\* lines 395-411: the particles after a hit
Splashed(parts, volume, x, topY, night, smp) ==
    IF volume < maxCapacity THEN parts
    ELSE Overflow(parts, 0, x, topY, night, smp)

\* the places 1..n of a store when a pass over it begins
Places(n) == [j \in 1..n |-> j]

\* lines 374-415: the loop body for index i.  st.tags[j] is the place the
\* element now at index j had when the pass began and st.visits lists the
\* places in the order the body ran on them; st.falls is what became of
\* each drop.
RainStep(i, st, night, smp) ==
    LET d == AdvanceDrop(st.drops[i])
        topY == vase.y - VASE_HEIGHT
        visits == Append(st.visits, st.tags[i])
    IN
    IF HitsVase(d, vase.x, topY)
    THEN LET vol == Filled(st.vol)
             parts == Splashed(st.parts, st.vol, d.x, topY, night, smp)
             drops == RemoveAt(st.drops, i)
         IN [drops |-> drops, vol |-> vol, parts |-> parts,
             tags |-> RemoveAt(st.tags, i), visits |-> visits,
             falls |-> Append(st.falls, [before |-> st.drops[i],
                                         after |-> d, end |-> "hit"]),
             hits |-> Append(st.hits,
                        [x |-> d.x, topY |-> topY,
                         volBefore |-> st.vol, volAfter |-> vol,
                         dropsBefore |-> Len(st.drops),
                         dropsAfter |-> Len(drops),
                         added |-> SubSeq(parts, Len(st.parts) + 1,
                                          Len(parts))])]
    ELSE IF d.y > canvas.h * Unit
    THEN [st EXCEPT !.drops = RemoveAt(st.drops, i),
                    !.tags = RemoveAt(st.tags, i), !.visits = visits,
                    !.falls = Append(@, [before |-> st.drops[i],
                                         after |-> d, end |-> "bottom"])]
    ELSE [st EXCEPT !.drops[i] = d, !.visits = visits,
                    !.falls = Append(@, [before |-> st.drops[i],
                                         after |-> d, end |-> "none"])]

\* line 373: for (let i = length - 1; i >= 0; i--), each body run on the
\* state its predecessor left
RECURSIVE RainPass(_, _, _, _)
RainPass(i, st, night, smp) ==
    IF i = 0 THEN st
    ELSE CHOOSE out \in { RainPass(j, s, night, smp) :
                             j \in {i - 1},
                             s \in {RainStep(i, st, night, smp)} } : TRUE

\* mutant: the bloom ends in the wrong state
BloomSkips(f) ==
    LET r == f.radius + ((f.maxRadius - f.radius) * BloomNum) \div BloomDen IN
    [f EXCEPT !.radius = r,
              !.state = IF Abs(f.maxRadius - r) < BloomEpsilon
                        THEN "withered" ELSE "blooming"]

\* lines 422-424
Bloom(f) ==
    LET r == f.radius + ((f.maxRadius - f.radius) * BloomNum) \div BloomDen IN
    [f EXCEPT !.radius = r,
              !.state = IF Abs(f.maxRadius - r) < BloomEpsilon
                        THEN "alive" ELSE "blooming"]

\* mutant: the flower ages but the test against maxLife is forgotten
AgeForever(f) == [f EXCEPT !.life = f.life + 1]

\* lines 425-430 (the sway of rotation is paint only)
Age(f) ==
    [f EXCEPT !.life = f.life + 1,
              !.state = IF f.life + 1 > f.maxLife
                        THEN "withered" ELSE "alive"]

\* line 433
Fade(f) == [f EXCEPT !.opacity = f.opacity - WitherStep]

\* mutant: the opacity threshold is forgotten
ShedsRollOnly(f, roll) == roll

\* line 436: Math.random() < 0.05 || flower.opacity <= 0.1
Sheds(f, roll) == roll \/ f.opacity <= ShedThreshold

\* mutant: the removal test is strict
GoneStrict(f) == f.opacity < 0

\* line 451
Gone(f) == f.opacity <= 0

\* lines 439-449
PetalParticle(f, smp) ==
    [x |-> f.x * Unit + smp.pjx, y |-> f.y * Unit + smp.pjy,
     vx |-> smp.pvx, vy |-> smp.pvy, color |-> f.color,
     life |-> FullLife, decay |-> smp.pdecay, type |-> "petal"]

\* mutant: the stem at the front of the store is spliced out
DropStemFirst(ss, stemId) == IF ss # <<>> THEN RemoveAt(ss, 1) ELSE ss

\* lines 453-454
DropStem(ss, stemId) ==
    LET k == FindStemIndex(ss, stemId) IN
    IF k # 0 THEN RemoveAt(ss, k) ELSE ss

\* lines 420-459: the loop body for index i; roll is this flower's 5% roll
FlowerStep(i, st, roll, smp) ==
    LET f == st.flowers[i]
        visits == Append(st.visits, st.tags[i])
    IN
    IF f.state = "blooming"
    THEN [st EXCEPT !.flowers[i] = Bloom(f), !.visits = visits,
                    !.evs = Append(@, [before |-> f, after |-> Bloom(f),
                                       removed |-> FALSE, roll |-> roll,
                                       emitted |-> <<>>])]
    ELSE IF f.state = "alive"
    THEN [st EXCEPT !.flowers[i] = Age(f), !.visits = visits,
                    !.evs = Append(@, [before |-> f, after |-> Age(f),
                                       removed |-> FALSE, roll |-> roll,
                                       emitted |-> <<>>])]
    ELSE IF f.state = "withered"
    THEN LET g == Fade(f)
             parts == IF Sheds(g, roll)
                      THEN Append(st.parts, PetalParticle(g, smp))
                      ELSE st.parts
             dead == Sheds(g, roll) /\ Gone(g)
             fs == IF dead THEN RemoveAt(st.flowers, i)
                   ELSE [st.flowers EXCEPT ![i] = g]
             ss == IF dead THEN DropStem(st.stems, g.stemId) ELSE st.stems
         IN [flowers |-> fs, stems |-> ss, parts |-> parts,
             tags |-> IF dead THEN RemoveAt(st.tags, i) ELSE st.tags,
             visits |-> visits,
             evs |-> Append(st.evs,
                       [before |-> f, after |-> g,
                        removed |-> Len(fs) < Len(st.flowers),
                        roll |-> roll,
                        emitted |-> SubSeq(parts, Len(st.parts) + 1,
                                           Len(parts))])]
    ELSE [st EXCEPT !.visits = visits]

RECURSIVE FlowerPass(_, _, _, _)
FlowerPass(i, st, rollAt, smp) ==
    IF i = 0 THEN st
    ELSE CHOOSE out \in { FlowerPass(j, s, rollAt, smp) :
                             j \in {i - 1},
                             s \in {FlowerStep(i, st, rollAt[i], smp)} } : TRUE

\* lines 465-477; the sine flutter of a petal's x is sampled at smp.sway
AdvanceParticle(p, smp) ==
    IF p.type = "petal"
    THEN [p EXCEPT !.life = p.life - p.decay,
                   !.x = p.x + smp.sway + p.vx \div 2,
                   !.y = p.y + p.vy \div 2,
                   !.vy = p.vy + PetalAccel]
    ELSE [p EXCEPT !.life = p.life - p.decay,
                   !.vy = p.vy + GRAVITY \div 2,
                   !.x = p.x + p.vx,
                   !.y = p.y + (p.vy + GRAVITY \div 2)]

\* mutant: the test of y against the surface is forgotten
ExpiredByLife(p) == p.life <= 0

\* line 479
Expired(p) == p.life <= 0 \/ p.y > (canvas.h + ParticleMargin) * Unit

\* mutant: the loop runs from the first index up, splicing as it goes
RECURSIVE ForwardFrom(_, _, _)
ForwardFrom(k, parts, smp) ==
    IF k > Len(parts) THEN parts
    ELSE LET p == AdvanceParticle(parts[k], smp) IN
         ForwardFrom(k + 1,
                     IF Expired(p) THEN RemoveAt(parts, k)
                     ELSE [parts EXCEPT ![k] = p], smp)

ParticlePassForward(i, parts, smp) == ForwardFrom(1, parts, smp)

\* lines 464-482: the loop body for index i
ParticleStep(i, parts, smp) ==
    CHOOSE out \in { IF Expired(p) THEN RemoveAt(parts, i)
                      ELSE [parts EXCEPT ![i] = p] :
                        p \in {AdvanceParticle(parts[i], smp)} } : TRUE

\* line 463: for (let i = length - 1; i >= 0; i--): the bodies for the
\* indices hi down to lo, in that order, the upper half of the range first
\* (a splice at an index moves no element below it)
RECURSIVE ParticleRange(_, _, _, _)
ParticleRange(hi, lo, parts, smp) ==
    IF hi < lo THEN parts
    ELSE IF hi = lo THEN ParticleStep(hi, parts, smp)
    ELSE LET mid == (hi + lo) \div 2 IN
         CHOOSE out \in { ParticleRange(mid, lo, s, smp) :
                            s \in {ParticleRange(hi, mid + 1, parts, smp)} } :
             TRUE

ParticlePass(i, parts, smp) == ParticleRange(i, 1, parts, smp)

\* history: the particles the pass over parts splices out, as advanced
Lost(parts, smp) ==
    SelectSeq([i \in 1..Len(parts) |-> AdvanceParticle(parts[i], smp)],
              Expired)

\* requestAnimationFrame(render): a handle that names no callback in the
\* queue q (the browser counts upwards; the model takes the least free one)
NewHandle(q) ==
    CHOOSE n \in 1..(Cardinality(q) + 1) :
        n \notin q /\ \A m \in 1..(n - 1) : m \in q

\* the values isNightRef.current yields to drawVase3D (lines 119-167) and
\* to drawFlower (lines 227, 251), which read the ref themselves
HelperReads == {isNightRef}

\* the callback the browser calls for one of the queued handles; night is
\* its own read of the ref (line 305)
render(rollAt, smp) ==
    \E night \in {isNightRef} :
    \E r \in {RainPass(Len(rainDrops),
                      [drops |-> rainDrops, vol |-> vase.currentVolume,
                       parts |-> particles, hits |-> <<>>, falls |-> <<>>,
                       tags |-> Places(Len(rainDrops)), visits |-> <<>>],
                      night, smp)} :
    \E f \in {FlowerPass(Len(flowers),
                        [flowers |-> flowers, stems |-> stems,
                         parts |-> r.parts, evs |-> <<>>,
                         tags |-> Places(Len(flowers)), visits |-> <<>>],
                        rollAt, smp)} :
    /\ \E k \in frameQueue :
          LET id == NewHandle(frameQueue \ {k}) IN
          /\ frameQueue' = (frameQueue \ {k}) \cup {id}
          /\ animationFrameId' = id
    /\ rainDrops' = r.drops
    /\ vase' = [vase EXCEPT !.currentVolume = r.vol]
    /\ flowers' = f.flowers
    /\ stems' = f.stems
    /\ particles' = ParticlePass(Len(f.parts), f.parts, smp)
    /\ frame' = IF frame < MaxFrame THEN frame + 1 ELSE frame
    /\ lastTick' = [kind |-> "tick", hits |-> r.hits, evs |-> f.evs,
                    night |-> night, helperNight |-> HelperReads,
                    rainVisits |-> r.visits, flowerVisits |-> f.visits,
                    falls |-> r.falls, lost |-> Lost(f.parts, smp)]
    /\ UNCHANGED <<canvas, isDrawing, currentStemId, isNight, isNightRef,
                   listening, nextId, accepted>>

---------------------------------------------------------------------------
(* The opacities as the numbers the engine holds.  A JavaScript number is  *)
(* an IEEE-754 binary64 value and every += and -= rounds its exact result  *)
(* to 53 significant bits, ties to even.  Every value the opacities take   *)
(* is a multiple of 2^-62 below 2 in magnitude; it is held here exactly,   *)
(* as a sign and the count of 2^-62 in three digits of base 2^21.          *)

Limb == 2097152              \* 2^21

\* the literals 1 (line 634), 0 (line 100), 0.001 (line 433), 0.05 (line
\* 379) and 0.1 (line 436), each the binary64 value nearest to the decimal
One64 == [neg |-> FALSE, m |-> <<1048576, 0, 0>>]
Zero64 == [neg |-> FALSE, m |-> <<0, 0, 0>>]
WitherStep64 == [neg |-> FALSE, m |-> <<1048, 1207959, 1157628>>]
DropFadeStep64 == [neg |-> FALSE, m |-> <<52428, 1677721, 1258304>>]
ShedThreshold64 == [neg |-> FALSE, m |-> <<104857, 1258291, 419456>>]

MagLess(a, b) ==
    \/ a[1] < b[1]
    \/ a[1] = b[1] /\ a[2] < b[2]
    \/ a[1] = b[1] /\ a[2] = b[2] /\ a[3] < b[3]

MagAdd(a, b) ==
    LET lo == a[3] + b[3]
        mid == a[2] + b[2] + lo \div Limb
    IN <<a[1] + b[1] + mid \div Limb, mid % Limb, lo % Limb>>

\* a - b for a >= b
MagSub(a, b) ==
    LET lo == a[3] - b[3]
        mid == a[2] - b[2] - (IF lo < 0 THEN 1 ELSE 0)
    IN <<a[1] - b[1] - (IF mid < 0 THEN 1 ELSE 0),
         (mid + Limb) % Limb, (lo + Limb) % Limb>>

RECURSIVE BitLen(_)
BitLen(n) == IF n = 0 THEN 0 ELSE 1 + BitLen(n \div 2)

RECURSIVE Pow2(_)
Pow2(r) == IF r = 0 THEN 1 ELSE 2 * Pow2(r - 1)

\* the exact magnitude a rounded to 53 significant bits, ties to even; the
\* bits rounded away are the lowest r of the last digit
Round53(a) ==
    LET r == IF a[1] = 0 THEN 0 ELSE BitLen(a[1]) + 42 - 53 IN
    IF r <= 0 THEN a
    ELSE LET ulp == Pow2(r)
             rest == a[3] % ulp
             down == <<a[1], a[2], a[3] - rest>>
             even == (a[3] \div ulp) % 2 = 0
         IN IF 2 * rest < ulp \/ (2 * rest = ulp /\ even)
            THEN down ELSE MagAdd(down, <<0, 0, ulp>>)

\* x + y as the engine computes it
Add64(x, y) ==
    IF x.neg = y.neg
    THEN [neg |-> x.neg, m |-> Round53(MagAdd(x.m, y.m))]
    ELSE IF x.m = y.m THEN Zero64
    ELSE IF MagLess(x.m, y.m)
    THEN [neg |-> y.neg, m |-> Round53(MagSub(y.m, x.m))]
    ELSE [neg |-> x.neg, m |-> Round53(MagSub(x.m, y.m))]

Neg64(x) == IF x.m = <<0, 0, 0>> THEN x ELSE [x EXCEPT !.neg = ~x.neg]

Sub64(x, y) == Add64(x, Neg64(y))

\* x < y
Less64(x, y) ==
    IF x.neg /\ ~y.neg THEN x.m # <<0, 0, 0>> \/ y.m # <<0, 0, 0>>
    ELSE IF ~x.neg /\ y.neg THEN FALSE
    ELSE IF x.neg THEN MagLess(y.m, x.m) ELSE MagLess(x.m, y.m)

Leq64(x, y) == ~Less64(y, x)

\* seq and the values of n more runs of line 433 on its last element:
\* flower.opacity -= 0.001
RECURSIVE Withering64(_, _)
Withering64(seq, n) ==
    IF n = 0 THEN seq
    ELSE IF n = 1
    THEN Append(seq, Sub64(seq[Len(seq)], WitherStep64))
    ELSE CHOOSE out \in { Withering64(t, n - n \div 2) :
                             t \in {Withering64(seq, n \div 2)} } : TRUE

\* seq and the values of n more runs of line 379 on its last element:
\* drop.opacity += 0.05
RECURSIVE Fading64(_, _)
Fading64(seq, n) ==
    IF n = 0 THEN seq
    ELSE IF n = 1
    THEN Append(seq, Add64(seq[Len(seq)], DropFadeStep64))
    ELSE CHOOSE out \in { Fading64(t, n - n \div 2) :
                             t \in {Fading64(seq, n \div 2)} } : TRUE

\* the numbers flower.opacity goes through from the 1 of line 634, and
\* drop.opacity from the 0 of line 100
FlowerOpacities64 == Withering64(<<One64>>, FullLife \div WitherStep)
DropOpacities64 == Fading64(<<Zero64>>, DropOpaque \div DropFadeStep)

\* the number in flower.opacity after the steps that brought f.opacity
\* down from FullLife, and in drop.opacity after those that brought
\* d.opacity up from 0
FlowerOpacity64(f) ==
    FlowerOpacities64[(FullLife - f.opacity) \div WitherStep + 1]

DropOpacity64(d) == DropOpacities64[d.opacity \div DropFadeStep + 1]

---------------------------------------------------------------------------
(* Samples of the inputs and of the random draws *)

\* container sizes (clientWidth, clientHeight)
Sizes == {<<0, 0>>, <<200, 265>>}

\* pointer positions relative to the canvas: 5, 50 and about 46 apart
Pointers == {<<100, 450>>, <<103, 454>>, <<100, 500>>}

\* e.key: a character, a named key, and the empty name
Keys == {"a", "Shift", ""}

\* random(0, canvas.width): over the middle of the vase
DropXs == {(canvas.w \div 2) * Unit}

\* random(3, 6)
DropVys == {30000, 55000}

\* pointer-up: Math.random() for the type, random(5, 9), hue,
\* random(20, 45), random(600, 1200); here a lily and a rose of 8 petals
FlowerDraws ==
    { [typeRoll |-> 700, petalRoll |-> 500, hue |-> 340,
       maxRadius |-> 20 * Unit, maxLife |-> 636],
      [typeRoll |-> 400, petalRoll |-> 899, hue |-> 220,
       maxRadius |-> 20 * Unit, maxLife |-> 639] }

\* one frame's draws for new particles: water velocity random(-1.5, 1.5),
\* random(-1, -2); petal offset random(-15, 15), velocity random(-1, 1),
\* random(0.5, 1.5), decay random(0.003, 0.008); the petal flutter
\* Math.sin(Date.now() * 0.002 + ...) * 0.5
ParticleDraws ==
    { [wvx |-> 10000, wvy |-> -15000, pjx |-> 0, pjy |-> -100000,
       pvx |-> 0, pvy |-> 10000, pdecay |-> 7, sway |-> 0] }

\* the 5% rolls of a frame: one per flower, read by withered flowers only
RollSets ==
    { r \in [1..Len(flowers) -> BOOLEAN] :
        \A i \in 1..Len(flowers) : r[i] => flowers[i].state = "withered" }

\* the current stem may still be extended within the bound
Extendable ==
    \A i \in 1..Len(stems) :
        stems[i].id = currentStemId => Len(stems[i].points) < MaxPoints

---------------------------------------------------------------------------
(* SpecVase: keys and frames without end, on a surface where a drop over   *)
(* the opening hits in its first or second frame; the vase fills up.       *)

InitVase == InitWith(200, 265)

\* the surface as mounted, and collapsed to no height
VaseSizes == {<<200, 265>>, <<200, 0>>}

NextVase ==
    \/ \E k \in Keys, x \in DropXs, vy \in DropVys :
          /\ Len(rainDrops) < MaxDrops
          /\ Len(particles) < MaxParticles
          /\ handleKeyDown(k, x, vy)
    \/ \E smp \in ParticleDraws : render(<<>>, smp)
    \/ \E sz \in VaseSizes : Resize(sz[1], sz[2])

SpecVase == InitVase /\ [][NextVase]_vars

---------------------------------------------------------------------------
(* SpecLoop: SpecVase's keys, frames and resizes, and the effect's cleanup *)
(* at any moment.                                                          *)

InitLoop == InitWith(200, 265)

NextLoop ==
    \/ \E k \in Keys, x \in DropXs, vy \in DropVys :
          /\ Len(rainDrops) < MaxDrops
          /\ Len(particles) < MaxParticles
          /\ handleKeyDown(k, x, vy)
    \/ \E smp \in ParticleDraws : render(<<>>, smp)
    \/ \E sz \in VaseSizes : Resize(sz[1], sz[2])
    \/ Teardown

SpecLoop == InitLoop /\ [][NextLoop]_vars

---------------------------------------------------------------------------
(* Spec: every handler, in any order, over the first MaxFrame frames,      *)
(* with one sample of each gesture and draw.                               *)

Init == \E sz \in Sizes : InitWith(sz[1], sz[2])

\* where the pointer goes down and where it is dragged to
Downs == {<<100, 200>>}
Moves == {<<100, 150>>}

\* random(3, 6) such that a drop over the opening hits in its first frame
FastVys == {55000}

\* one flower, a lily
OneDraw ==
    { [typeRoll |-> 700, petalRoll |-> 500, hue |-> 340,
       maxRadius |-> 20 * Unit, maxLife |-> 600] }

Next ==
    \/ \E sz \in Sizes : Resize(sz[1], sz[2])
    \/ \E k \in Keys, x \in DropXs, vy \in FastVys :
          Len(rainDrops) < MaxDrops /\ handleKeyDown(k, x, vy)
    \/ ToggleNight
    \/ SyncNightRef
    \/ \E pt \in Downs :
          nextId + 1 <= MaxIds /\ onPointerDown(pt[1], pt[2])
    \/ \E pt \in Moves : Extendable /\ onPointerMove(pt[1], pt[2])
    \/ \E d \in OneDraw : onPointerUp(d)
    \/ \E r \in RollSets, smp \in ParticleDraws :
          frame < MaxFrame /\ render(r, smp)

Spec == Init /\ [][Next]_vars

---------------------------------------------------------------------------
(* SpecDraw: the pointer handlers over all sampled positions and draws,    *)
(* and the first MaxFrame frames.                                          *)

InitDraw == InitWith(200, 600)

NextDraw ==
    \/ \E pt \in Pointers :
          nextId + 1 <= MaxIds /\ onPointerDown(pt[1], pt[2])
    \/ \E pt \in Pointers : Extendable /\ onPointerMove(pt[1], pt[2])
    \/ \E d \in FlowerDraws : onPointerUp(d)
    \/ \E r \in RollSets, smp \in ParticleDraws :
          frame < MaxFrame /\ render(r, smp)

SpecDraw == InitDraw /\ [][NextDraw]_vars

---------------------------------------------------------------------------
(* SpecLife: one or two stems of one point put down in the first frames,    *)
(* then frames without end: the flowers bloom, live, wither and are        *)
(* removed.                                                                *)

InitLife == InitWith(200, 600)

\* the stages of withering (opacity at the start of the frame) at which the
\* 5% roll is let succeed: the first withered frame, the two frames around
\* the 0.1 threshold, and the frame of removal
RollStages == {1000, 102, 101, 1}

LifeRollSets ==
    { r \in RollSets :
        \A i \in 1..Len(flowers) : r[i] => flowers[i].opacity \in RollStages }

NextLife ==
    \/ \E pt \in Downs :
          /\ frame < MaxFrame
          /\ nextId + 1 <= MaxLifeIds
          /\ onPointerDown(pt[1], pt[2])
    \/ \E d \in OneDraw : frame < MaxFrame /\ onPointerUp(d)
    \/ \E r \in LifeRollSets, smp \in ParticleDraws : render(r, smp)

SpecLife == InitLife /\ [][NextLife]_vars

---------------------------------------------------------------------------
(* SpecKinds: one flower of every kind the draws can make, planted in the  *)
(* first frames, then frames without end.                                  *)

InitKinds == InitWith(200, 600)

\* Math.random() around the two places where the type changes
TypeRolls == {0, 333, 334, 666, 667, 999}

\* random(5, 9): both ends and around a whole number
PetalRolls == {500, 599, 600, 899}

\* the draws of pointer-up: every type and petal roll, and one flower of
\* the largest radius and longest life
KindDraws ==
    { [typeRoll |-> t, petalRoll |-> p, hue |-> 340,
       maxRadius |-> 20 * Unit, maxLife |-> 600] :
         t \in TypeRolls, p \in PetalRolls }
    \cup { [typeRoll |-> 0, petalRoll |-> 650, hue |-> 50,
           maxRadius |-> 45 * Unit - 1, maxLife |-> 1199] }

Plant ==
    \E pt \in Downs :
        /\ frame < MaxFrame
        /\ nextId + 1 <= MaxKindIds
        /\ onPointerDown(pt[1], pt[2])

Release == \E d \in KindDraws : frame < MaxFrame /\ onPointerUp(d)

Tick == \E r \in LifeRollSets, smp \in ParticleDraws : render(r, smp)

NextKinds == Plant \/ Release \/ Tick

SpecKinds == InitKinds /\ [][NextKinds]_vars

\* the same with frames that keep running: render requests the next frame
\* in every call while the effect is live
SpecKindsFair == InitKinds /\ [][NextKinds]_vars /\ WF_vars(Tick)

---------------------------------------------------------------------------
(* SpecPointer: the pointer handlers when uuid() may return a value again, *)
(* so that the stem found by id can be another, already grown stem; and    *)
(* the first MaxFrame frames.                                              *)

InitPointer == InitWith(200, 600)

NextPointer ==
    \/ \E pt \in Downs :
          /\ nextId + 1 <= MaxUuids
          /\ Len(stems) < MaxStems
          /\ onPointerDown(pt[1], pt[2])
    \/ \E id \in 1..MaxUuids, pt \in Downs :
          Len(stems) < MaxStems /\ onPointerDownAgain(id, pt[1], pt[2])
    \/ \E pt \in Moves : Extendable /\ onPointerMove(pt[1], pt[2])
    \/ \E d \in OneDraw : nextId <= MaxUuids /\ onPointerUp(d)
    \/ \E r \in RollSets, smp \in ParticleDraws :
          frame < MaxFrame /\ render(r, smp)

SpecPointer == InitPointer /\ [][NextPointer]_vars

---------------------------------------------------------------------------
(* SpecPass: a busy scene.  Stems are put down and released before the    *)
(* first frame.  Whenever fewer than MaxParticles splashes of water are in *)
(* flight the user presses MaxPassDrops keys before the next frame, and    *)
(* none otherwise; each drop falls over the opening and hits in its first  *)
(* frame, so the vase fills and then overflows time and again while the    *)
(* flowers live and die.                                                   *)

InitPass == InitWith(200, 265)

\* the user is typing
Typing ==
    /\ Len(rainDrops) < MaxPassDrops
    /\ Cardinality({i \in 1..Len(particles) : particles[i].type = "water"})
          < MaxParticles

\* no 5% roll succeeds: a flower sheds at opacity 0.1 and below
NoRolls == {[i \in 1..Len(flowers) |-> FALSE]}

NextPass ==
    \/ \E x \in DropXs, vy \in FastVys : Typing /\ handleKeyDown("a", x, vy)
    \/ \E pt \in Downs :
          /\ frame = 0
          /\ nextId + 1 <= MaxLifeIds
          /\ onPointerDown(pt[1], pt[2])
    \/ \E d \in FlowerDraws : frame = 0 /\ onPointerUp(d)
    \/ \E r \in NoRolls, smp \in ParticleDraws : ~Typing /\ render(r, smp)

SpecPass == InitPass /\ [][NextPass]_vars

---------------------------------------------------------------------------
(* SpecRain: keys in the first MaxFrame frames, over the opening and at    *)
(* the left edge, resizes at any time, and frames that keep running: the   *)
(* callback requests the next frame as long as the effect is live.         *)

InitRain == InitWith(200, 265)

\* random(0, canvas.width): the left edge and the middle of the vase
RainXs == {0, (canvas.w \div 2) * Unit}

RainTick == \E smp \in ParticleDraws : render(<<>>, smp)

NextRain ==
    \/ \E x \in RainXs, vy \in DropVys :
          /\ frame < MaxFrame
          /\ Len(rainDrops) < MaxRainDrops
          /\ handleKeyDown("a", x, vy)
    \/ \E sz \in VaseSizes : Resize(sz[1], sz[2])
    \/ RainTick

SpecRain == InitRain /\ [][NextRain]_vars /\ WF_vars(RainTick)

---------------------------------------------------------------------------
(* SpecTall: the same keys on a surface 11047 high, whose vase does not    *)
(* move: the container's clientHeight is whatever the page gives it.       *)

InitTall == InitWith(200, 11047)

NextTall ==
    \/ \E x \in RainXs, vy \in DropVys :
          /\ frame < MaxFrame
          /\ Len(rainDrops) < MaxDrops
          /\ handleKeyDown("a", x, vy)
    \/ RainTick

SpecTall == InitTall /\ [][NextTall]_vars

---------------------------------------------------------------------------
(* SpecParticles: the user types one drop at a time until the vase is full *)
(* and overflows, then draws one flower, and types again once the flower   *)
(* and its petals are gone; the surface may collapse while particles fly;  *)
(* frames keep running.                                                    *)

InitParticles == InitWith(200, 265)

Calm == rainDrops = <<>> /\ particles = <<>>

TypeOne ==
    \E x \in DropXs, vy \in FastVys :
        Calm /\ stems = <<>> /\ handleKeyDown("a", x, vy)

PlantOne ==
    \E pt \in Downs :
        /\ Calm
        /\ stems = <<>>
        /\ vase.currentVolume >= maxCapacity
        /\ nextId + 1 <= MaxKindIds
        /\ onPointerDown(pt[1], pt[2])

ReleaseOne == \E d \in OneDraw : onPointerUp(d)

Collapse ==
    \E sz \in VaseSizes : particles # <<>> /\ Resize(sz[1], sz[2])

NextParticles == TypeOne \/ PlantOne \/ ReleaseOne \/ Collapse \/ Tick

SpecParticles ==
    InitParticles /\ [][NextParticles]_vars /\ WF_vars(Tick)

---------------------------------------------------------------------------
(* Claims about the vase (SpecVase) *)

Min(a, b) == IF a < b THEN a ELSE b

\* the collisions of the frame that just ran
Hits == IF lastTick.kind = "tick" THEN lastTick.hits ELSE <<>>

\* C1: in every reachable state the vase's currentVolume is at most
\* maxCapacity.
C1_VolumeWithinCapacity == vase.currentVolume <= maxCapacity

\* C2: a collision at a volume v below maxCapacity leaves the volume at
\* min(v + 30, maxCapacity) and removes the drop.
C2_FillClamped ==
    \A n \in 1..Len(Hits) :
        Hits[n].volBefore < maxCapacity =>
            /\ Hits[n].volAfter
                  = Min(Hits[n].volBefore + FillIncrement, maxCapacity)
            /\ Hits[n].dropsAfter = Hits[n].dropsBefore - 1

\* C3: every collision removes the drop and does exactly one of two things:
\* below capacity it raises the volume and adds no particle; otherwise it
\* leaves the volume and appends exactly 2 'water' particles of life 1 at
\* the hit x and the rim top.
IsOverflowPair(h) ==
    /\ Len(h.added) = 2
    /\ \A k \in 1..Len(h.added) :
          /\ h.added[k].type = "water"
          /\ h.added[k].life = FullLife
          /\ h.added[k].x = h.x
          /\ h.added[k].y = h.topY * Unit

C3_FillOrOverflow ==
    \A n \in 1..Len(Hits) :
        /\ Hits[n].dropsAfter = Hits[n].dropsBefore - 1
        /\ \/ /\ Hits[n].volBefore < maxCapacity
              /\ Hits[n].volAfter > Hits[n].volBefore
              /\ Hits[n].added = <<>>
           \/ /\ Hits[n].volBefore >= maxCapacity
              /\ Hits[n].volAfter = Hits[n].volBefore
              /\ IsOverflowPair(Hits[n])

\* a frame in which a drop hit the full vase and splashed
C3_Witness ==
    \E n \in 1..Len(Hits) :
        Hits[n].volBefore >= maxCapacity /\ Len(Hits[n].added) = 2

\* C4: currentVolume never decreases, and it changes only in a frame in
\* which a raindrop collides with the vase opening; every other step
\* (key press, pointer event, resize, toggle, frame without collision)
\* leaves it unchanged.
C4_VolumeMonotone ==
    [][/\ vase'.currentVolume >= vase.currentVolume
       /\ vase'.currentVolume # vase.currentVolume =>
             /\ lastTick'.kind = "tick"
             /\ lastTick'.hits # <<>>]_vars

\* the vase has taken two drops while a stem was being drawn
C4_Witness ==
    /\ vase.currentVolume >= 2 * FillIncrement
    /\ stems # <<>>

---------------------------------------------------------------------------
(* Claims about flowers and stems *)

\* the flowers and stems by id
FlowerIds(fs) == {fs[i].id : i \in 1..Len(fs)}
FlowerOf(fs, id) == fs[CHOOSE i \in 1..Len(fs) : fs[i].id = id]
StemIds(ss) == {ss[i].id : i \in 1..Len(ss)}
StemOf(ss, id) == ss[CHOOSE i \in 1..Len(ss) : ss[i].id = id]

Rank(state) ==
    CASE state = "blooming" -> 1
      [] state = "alive" -> 2
      [] state = "withered" -> 3

\* what the frame that just ran did to each flower
Events(t) == IF t.kind = "tick" THEN t.evs ELSE <<>>

\* C5: a flower's state changes only along blooming -> alive -> withered ->
\* removed: it is created 'blooming', each step keeps its state or moves it
\* one step forward, and it leaves the store only while 'withered'.
C5_Lifecycle ==
    [][/\ \A id \in FlowerIds(flowers') \ FlowerIds(flowers) :
             FlowerOf(flowers', id).state = "blooming"
       /\ \A id \in FlowerIds(flowers) \cap FlowerIds(flowers') :
             LET old == Rank(FlowerOf(flowers, id).state)
                 new == Rank(FlowerOf(flowers', id).state)
             IN /\ new \in {old, old + 1}
                /\ new # old => lastTick'.kind = "tick"
       /\ \A id \in FlowerIds(flowers) \ FlowerIds(flowers') :
             /\ FlowerOf(flowers, id).state = "withered"
             /\ lastTick'.kind = "tick"]_vars

\* a frame has removed a flower, which went through all three states
C5_Witness ==
    \E n \in 1..Len(Events(lastTick)) :
        /\ Events(lastTick)[n].removed
        /\ Events(lastTick)[n].before.life > Events(lastTick)[n].before.maxLife
        /\ Events(lastTick)[n].before.radius > 0

\* C6: a withered flower's opacity never increases; no flower with
\* opacity <= 0 remains after a step; a flower leaves the store only in the
\* frame that brings its opacity to <= 0, and its stem leaves with it.
C6_WitherAndRemove ==
    [][/\ \A j \in 1..Len(flowers') : flowers'[j].opacity > 0
       /\ \A id \in FlowerIds(flowers) \cap FlowerIds(flowers') :
             FlowerOf(flowers, id).state = "withered" =>
                FlowerOf(flowers', id).opacity <= FlowerOf(flowers, id).opacity
       /\ \A id \in FlowerIds(flowers) \ FlowerIds(flowers') :
             /\ \E n \in 1..Len(Events(lastTick')) :
                   /\ Events(lastTick')[n].before = FlowerOf(flowers, id)
                   /\ Events(lastTick')[n].after.opacity <= 0
                   /\ Events(lastTick')[n].before.opacity > 0
             /\ FlowerOf(flowers, id).stemId \in StemIds(stems)
             /\ FlowerOf(flowers, id).stemId \notin StemIds(stems')]_vars

\* a flower was removed in a frame whose 5% roll failed
C6_Witness ==
    \E n \in 1..Len(Events(lastTick)) :
        /\ Events(lastTick)[n].removed
        /\ ~Events(lastTick)[n].roll
        /\ Events(lastTick)[n].after.opacity <= 0

\* C7: every flower's stemId is the id of a stem in the store and no two
\* flowers share a stemId; a flower and its stem leave the stores in the
\* same step, and no stem leaves otherwise.
Referential(fs, ss) ==
    /\ \A i \in 1..Len(fs) : fs[i].stemId \in StemIds(ss)
    /\ \A i, j \in 1..Len(fs) : fs[i].stemId = fs[j].stemId => i = j

C7_FlowerStemIntegrity ==
    [][/\ Referential(flowers, stems)
       /\ Referential(flowers', stems')
       /\ \A id \in FlowerIds(flowers) \ FlowerIds(flowers') :
             FlowerOf(flowers, id).stemId \notin StemIds(stems')
       /\ \A sid \in StemIds(stems) \ StemIds(stems') :
             \E id \in FlowerIds(flowers) \ FlowerIds(flowers') :
                 FlowerOf(flowers, id).stemId = sid]_vars

\* one flower has been removed with its stem while another flower and its
\* stem remain
C7_Witness ==
    /\ \E n \in 1..Len(Events(lastTick)) : Events(lastTick)[n].removed
    /\ Len(flowers) >= 1
    /\ Len(stems) = Len(flowers)

\* C8: any two consecutive points of any stem are more than 5 apart; a
\* stem's points change only by one point appended more than 5 from its
\* last point, and a pointer-move to within 5 of the last point changes no
\* stem.
Dist2(p, q) == (p.x - q.x) * (p.x - q.x) + (p.y - q.y) * (p.y - q.y)

Spaced(points) ==
    \A k \in 1..(Len(points) - 1) : Dist2(points[k], points[k + 1]) > 5 * 5

\* the stem a pointer-move would extend, if any
Drawn ==
    {i \in 1..Len(stems) :
        isDrawing /\ stems[i].id = currentStemId /\ ~stems[i].grown}

C8_MinSpacing ==
    [][/\ \A i \in 1..Len(stems') : Spaced(stems'[i].points)
       /\ \A id \in StemIds(stems) \cap StemIds(stems') :
             LET old == StemOf(stems, id).points
                 new == StemOf(stems', id).points
             IN new # old =>
                   /\ Len(new) = Len(old) + 1
                   /\ SubSeq(new, 1, Len(old)) = old
                   /\ Dist2(new[Len(new)], old[Len(old)]) > 5 * 5
       /\ \A pt \in Pointers :
             (/\ onPointerMove(pt[1], pt[2])
              /\ \A i \in Drawn :
                    Dist2([x |-> pt[1], y |-> pt[2]],
                          stems[i].points[Len(stems[i].points)]) <= 5 * 5)
             => stems' = stems]_vars

\* a stem that was extended, at a moment when the pointer is exactly 5 away
\* from a point the user may move to
C8_Witness ==
    \E i \in Drawn :
        /\ Len(stems[i].points) >= 2
        /\ \E pt \in Pointers :
              Dist2([x |-> pt[1], y |-> pt[2]],
                    stems[i].points[Len(stems[i].points)]) = 5 * 5

\* C9: a pointer-up that ends a gesture (pointer-down, then k accepted
\* pointer-moves) leaves the stem with its k + 1 points and grown, and
\* appends exactly one flower: stemId the stem's id, 'blooming', radius 0,
\* opacity 1, age 0, at the stem's last point.  A pointer-down starts a
\* stem of one point.  A pointer-up with no gesture in progress creates no
\* flower, and after any pointer-up no gesture is in progress.
IsNewFlowerOf(f, stem) ==
    /\ f.stemId = stem.id
    /\ f.state = "blooming"
    /\ f.radius = 0
    /\ f.opacity = FullLife
    /\ f.life = 0
    /\ f.x = stem.points[Len(stem.points)].x
    /\ f.y = stem.points[Len(stem.points)].y

C9_GestureMakesOneFlower ==
    [][/\ \A pt \in Pointers :
             onPointerDown(pt[1], pt[2]) =>
                /\ Len(stems') = Len(stems) + 1
                /\ Len(stems'[Len(stems')].points) = 1
                /\ ~stems'[Len(stems')].grown
                /\ flowers' = flowers
       /\ \A d \in FlowerDraws :
             onPointerUp(d) =>
                /\ ~isDrawing'
                /\ IF isDrawing /\ currentStemId \in StemIds(stems)
                   THEN LET old == StemOf(stems, currentStemId)
                            new == StemOf(stems', currentStemId)
                        IN /\ new.grown
                           /\ new.points = old.points
                           /\ Len(new.points) = accepted + 1
                           /\ Len(flowers') = Len(flowers) + 1
                           /\ SubSeq(flowers', 1, Len(flowers)) = flowers
                           /\ IsNewFlowerOf(flowers'[Len(flowers')], new)
                   ELSE flowers' = flowers /\ stems' = stems]_vars

\* a finished gesture with one accepted move: a grown stem of two points
\* and its new flower, no gesture in progress
C9_Witness ==
    /\ ~isDrawing
    /\ \E i \in 1..Len(stems), j \in 1..Len(flowers) :
          /\ stems[i].grown
          /\ Len(stems[i].points) = 2
          /\ IsNewFlowerOf(flowers[j], stems[i])

\* C10: a withered flower whose opacity is at or below 0.1 when the frame
\* starts emits exactly one petal ('petal', life 1, the flower's colour)
\* whatever the roll; one whose opacity is above 0.1 after the frame's
\* decrement emits a petal exactly when the roll succeeds; never more than
\* one petal per flower per frame.
IsPetalOf(p, f) ==
    /\ p.type = "petal"
    /\ p.life = FullLife
    /\ p.color = f.color

C10_PetalEmission ==
    \A n \in 1..Len(Events(lastTick)) :
        LET ev == Events(lastTick)[n] IN
        ev.before.state = "withered" =>
            /\ Len(ev.emitted) <= 1
            /\ \A k \in 1..Len(ev.emitted) : IsPetalOf(ev.emitted[k], ev.before)
            /\ ev.before.opacity <= 100 => Len(ev.emitted) = 1
            /\ ev.after.opacity > 100 => (Len(ev.emitted) = 1 <=> ev.roll)

\* a withered flower at opacity exactly 0.1 whose roll failed emitted a petal
C10_Witness ==
    \E n \in 1..Len(Events(lastTick)) :
        /\ Events(lastTick)[n].before.state = "withered"
        /\ Events(lastTick)[n].before.opacity = 100
        /\ ~Events(lastTick)[n].roll
        /\ Len(Events(lastTick)[n].emitted) = 1

---------------------------------------------------------------------------
(* Claims about the flower's kind (SpecKinds) *)

\* C11: every lily in the store has petalCount 6 and every cosmos or rose
\* has a whole petalCount in 5..8, whatever the random draws; petalCount
\* and type of a flower never change after its creation.
KindOk(f) ==
    /\ f.type \in {"cosmos", "rose", "lily"}
    /\ f.type = "lily" => f.petalCount = 6
    /\ f.type \in {"cosmos", "rose"} => f.petalCount \in 5..8

C11_PetalCountByKind ==
    [][/\ \A i \in 1..Len(flowers) : KindOk(flowers[i])
       /\ \A i \in 1..Len(flowers') : KindOk(flowers'[i])
       /\ \A id \in FlowerIds(flowers) \cap FlowerIds(flowers') :
             /\ FlowerOf(flowers', id).petalCount
                   = FlowerOf(flowers, id).petalCount
             /\ FlowerOf(flowers', id).type = FlowerOf(flowers, id).type]_vars

\* a cosmos of 8 petals that has bloomed, lived and is fading
C11_Witness ==
    \E i \in 1..Len(flowers) :
        /\ flowers[i].type = "cosmos"
        /\ flowers[i].petalCount = 8
        /\ flowers[i].state = "withered"
        /\ flowers[i].opacity < ShedThreshold

---------------------------------------------------------------------------
(* Claims about the handlers (Spec) *)

\* the entity stores, the vase and the interaction state
Stores ==
    <<canvas, vase, rainDrops, stems, flowers, particles, isDrawing,
      currentStemId, isNight, isNightRef>>

\* C12: a key press whose key name is one character appends exactly one
\* raindrop carrying that character, with opacity 0 and y = -20, and
\* changes nothing else; a key press whose key name has more than one
\* character, or none, leaves every entity store and the vase unchanged.
C12_KeyPress ==
    [][\A k \in Keys, x \in DropXs, vy \in FastVys :
          handleKeyDown(k, x, vy) =>
             IF Len(k) = 1
             THEN /\ Len(rainDrops') = Len(rainDrops) + 1
                  /\ SubSeq(rainDrops', 1, Len(rainDrops)) = rainDrops
                  /\ rainDrops'[Len(rainDrops')].char = k
                  /\ rainDrops'[Len(rainDrops')].opacity = 0
                  /\ rainDrops'[Len(rainDrops')].y = -20 * Unit
                  /\ UNCHANGED <<canvas, vase, stems, flowers, particles,
                                 isDrawing, currentStemId, isNight,
                                 isNightRef>>
             ELSE UNCHANGED Stores]_vars

\* a fresh raindrop 'a' in a scene that already holds a flower on its stem
C12_Witness ==
    /\ Len(rainDrops) = 1
    /\ rainDrops[1].char = "a"
    /\ rainDrops[1].opacity = 0
    /\ rainDrops[1].y = DropStartY
    /\ flowers # <<>>
    /\ lastTick = NoTick

\* C14: a resize that observes a zero-sized surface (width 0 or height 0)
\* leaves the vase position and every other entity position as they were;
\* the vase position changes only in a resize that observes a non-zero
\* size, which places the vase at x = width / 2, y = height - 80.
C14_ZeroResizeKeepsPositions ==
    [][/\ \A sz \in Sizes :
             Resize(sz[1], sz[2]) =>
                IF sz[1] = 0 \/ sz[2] = 0
                THEN UNCHANGED <<vase, rainDrops, stems, flowers, particles>>
                ELSE /\ vase'.x = sz[1] \div 2
                     /\ vase'.y = sz[2] - 80
                     /\ UNCHANGED <<rainDrops, stems, flowers, particles>>
       /\ (vase'.x # vase.x \/ vase'.y # vase.y) =>
             \E sz \in Sizes :
                 sz[1] # 0 /\ sz[2] # 0 /\ Resize(sz[1], sz[2])]_vars

\* C16: all reads of the day/night flag inside one frame (the frame's own
\* read and the reads of the vase and flower drawing helpers) return the
\* same value, and that value is the one most recently written by a toggle
\* that completed before the frame began; the toggle changes only the flag
\* and no entity store.
C16_FlagFreshAndUntorn ==
    [][/\ lastTick'.kind = "tick" =>
             /\ lastTick'.helperNight = {lastTick'.night}
             /\ lastTick'.night = isNight
       /\ ToggleNight =>
             /\ isNight' = ~isNight
             /\ UNCHANGED <<canvas, vase, rainDrops, stems, flowers,
                            particles, isDrawing, currentStemId>>]_vars

---------------------------------------------------------------------------
(* Claims about the render loop (SpecLoop) *)

\* C15: while the loop is live exactly one next frame is scheduled, the one
\* animationFrameId names; teardown cancels it and none is scheduled
\* afterwards, so no frame runs after teardown; after teardown a key press
\* adds no raindrop.  (A frame is one step: a callback runs to its end
\* before any other handler or the cleanup can run.)
C15_TeardownStopsLoop ==
    [][/\ listening => frameQueue = {animationFrameId}
       /\ listening' => Cardinality(frameQueue') = 1
       /\ ~listening' => frameQueue' = {}
       /\ ~listening =>
             /\ ~listening'
             /\ lastTick'.kind # "tick"
             /\ UNCHANGED <<rainDrops, particles, vase>>
       /\ \A k \in Keys, x \in DropXs, vy \in DropVys :
             handleKeyDown(k, x, vy) => listening]_vars

\* torn down after frames have run, with a raindrop still in the air
C15_Witness ==
    /\ ~listening
    /\ frameQueue = {}
    /\ vase.currentVolume > 0
    /\ rainDrops # <<>>

---------------------------------------------------------------------------
(* Claims about the passes of a frame (SpecPass) *)

\* every place 1..n occurs exactly once in visits
EachOnce(visits, n) ==
    /\ Len(visits) = n
    /\ \A j \in 1..n : Cardinality({k \in 1..n : visits[k] = j}) = 1

\* the particles a frame's collisions and flowers appended, in order
RECURSIVE Appended(_, _)
Appended(log, field) ==
    IF log = <<>> THEN <<>>
    ELSE (IF field = "added" THEN Head(log).added ELSE Head(log).emitted)
         \o Appended(Tail(log), field)

\* C17: in every frame each raindrop, each flower and each particle that is
\* in its store when its pass begins is advanced exactly once, also when
\* other elements of the store are removed during the pass; particles
\* appended by the rain pass or the flower pass are advanced exactly once
\* by the particle pass of the same frame.
C17_EachAdvancedOnce ==
    [][lastTick'.kind = "tick" =>
          /\ EachOnce(lastTick'.rainVisits, Len(rainDrops))
          /\ EachOnce(lastTick'.flowerVisits, Len(flowers))
          /\ \E smp \in ParticleDraws :
                LET atPass == particles \o Appended(lastTick'.hits, "added")
                                 \o Appended(lastTick'.evs, "emitted")
                    once == [i \in 1..Len(atPass) |->
                                AdvanceParticle(atPass[i], smp)]
                    Stays(q) == q.life > 0
                                /\ q.y <= (canvas.h + 50) * Unit
                IN particles' = SelectSeq(once, Stays)]_vars

\* a frame in which a drop was spliced out before another drop's turn, a
\* flower was removed while another stayed, and particles old and new,
\* from the overflow and from a flower, went through the particle pass
C17_Witness ==
    /\ lastTick.kind = "tick"
    /\ Len(lastTick.rainVisits) >= 2
    /\ Len(lastTick.hits) >= 2
    /\ Len(lastTick.flowerVisits) >= 2
    /\ \E n \in 1..Len(lastTick.evs) : lastTick.evs[n].removed
    /\ flowers # <<>>
    /\ Appended(lastTick.hits, "added") # <<>>
    /\ Appended(lastTick.evs, "emitted") # <<>>
    /\ Len(particles) > 8

---------------------------------------------------------------------------
(* Claims about the pointer handlers (SpecPointer) *)

\* no stem is being drawn, or the current stem id is not in the store
NoGesture ==
    \/ ~isDrawing
    \/ currentStemId = NoStem
    \/ currentStemId \notin StemIds(stems)

\* the stem found by the current id is already grown
FoundGrown ==
    /\ currentStemId \in StemIds(stems)
    /\ stems[FindStemIndex(stems, currentStemId)].grown

\* C13: a pointer-move or pointer-up when no stem is being drawn or the
\* current stem id is not in the stem store, and a pointer-move when the
\* stem is already grown, leave stems, flowers, raindrops, particles and
\* vase unchanged (and the handler runs to its end).
C13_NoMatchNoOp ==
    [][/\ \A pt \in Moves :
             (onPointerMove(pt[1], pt[2]) /\ (NoGesture \/ FoundGrown))
                => UNCHANGED <<stems, flowers, rainDrops, particles, vase>>
       /\ \A d \in OneDraw :
             (onPointerUp(d) /\ NoGesture)
                => /\ UNCHANGED <<stems, flowers, rainDrops, particles, vase>>
                   /\ ~isDrawing'
                   /\ currentStemId' = NoStem]_vars

\* a gesture in progress whose stem id finds a grown stem, with the pointer
\* more than 5 away from that stem's last point
C13_Witness ==
    /\ isDrawing
    /\ FoundGrown
    /\ \E pt \in Moves :
          LET st == stems[FindStemIndex(stems, currentStemId)] IN
          FarEnough(pt[1], pt[2], st.points[Len(st.points)])

\* the last point of a stem
Tip(stem) == stem.points[Len(stem.points)]

\* C18: once a stem is marked grown its points never change again, under
\* any later pointer-down, pointer-move, pointer-up and frame, until the
\* stem is removed; a flower is created at the last point of the stem that
\* pointer-up marks grown and its position never changes, so it stays equal
\* to the stem's last point until both are removed.
C18_GrownStemFrozen ==
    [][/\ lastTick'.kind # "tick" =>
             \A i \in 1..Len(stems) :
                 /\ i <= Len(stems')
                 /\ stems[i].grown => stems'[i] = stems[i]
                 /\ stems'[i].grown => stems'[i].points = stems[i].points
       /\ lastTick'.kind = "tick" =>
             \A j \in 1..Len(stems') :
                 \E i \in 1..Len(stems) : stems'[j] = stems[i]
       /\ \A id \in FlowerIds(flowers) \cap FlowerIds(flowers') :
             /\ FlowerOf(flowers', id).x = FlowerOf(flowers, id).x
             /\ FlowerOf(flowers', id).y = FlowerOf(flowers, id).y
       /\ \A j \in 1..Len(flowers') :
             LET k == FindStemIndex(stems', flowers'[j].stemId) IN
             /\ k # 0
             /\ stems'[k].grown
             /\ Tip(stems'[k]).x = flowers'[j].x
             /\ Tip(stems'[k]).y = flowers'[j].y]_vars

\* a grown stem with its flower at its tip, a frame later, while a new
\* gesture whose id finds that grown stem has the pointer more than 5 away
\* from the tip
C18_Witness ==
    /\ isDrawing
    /\ FoundGrown
    /\ frame > 0
    /\ LET st == stems[FindStemIndex(stems, currentStemId)] IN
       /\ \E j \in 1..Len(flowers) :
             /\ flowers[j].stemId = st.id
             /\ flowers[j].radius > 0
             /\ flowers[j].x = Tip(st).x
             /\ flowers[j].y = Tip(st).y
       /\ \E pt \in Moves : FarEnough(pt[1], pt[2], Tip(st))

---------------------------------------------------------------------------
(* Claims about a raindrop's fall (SpecRain) *)

\* what the frame that just ran did to each raindrop
Falls(t) == IF t.kind = "tick" THEN t.falls ELSE <<>>

\* every frame moves each raindrop down and never fades it; a drop leaves
\* the store only in a frame, by a hit or below the surface
FallsDown ==
    [][/\ \A n \in 1..Len(Falls(lastTick')) :
             LET ev == Falls(lastTick')[n] IN
             /\ ev.after.y > ev.before.y
             /\ ev.after.opacity >= ev.before.opacity
             /\ ev.end = "hit" =>
                   ev.after.x > (vase.x - 40) * Unit
                   /\ ev.after.x < (vase.x + 40) * Unit
             /\ ev.end = "bottom" => ev.after.y > canvas.h * Unit
       /\ Len(rainDrops') < Len(rainDrops) =>
             \E n \in 1..Len(Falls(lastTick')) :
                 Falls(lastTick')[n].end \in {"hit", "bottom"}
       /\ Len(rainDrops') = Len(rainDrops)
              - Cardinality({n \in 1..Len(Falls(lastTick')) :
                               Falls(lastTick')[n].end # "none"})
              + (IF lastTick'.kind = "tick" THEN 0
                 ELSE Len(rainDrops') - Len(rainDrops))]_vars

\* C19: if frames keep running every raindrop is removed after finitely
\* many frames, by a collision with the vase opening or by its y passing
\* the surface height; while it exists its y strictly increases in every
\* frame and its opacity never decreases.
C19_DropEventuallyRemoved == FallsDown /\ <>[](rainDrops = <<>>)

\* a frame in which one drop left below the surface while another, older
\* and fully opaque, kept falling
C19_Witness ==
    /\ \E n \in 1..Len(Falls(lastTick)) : Falls(lastTick)[n].end = "bottom"
    /\ \E n \in 1..Len(Falls(lastTick)) :
          /\ Falls(lastTick)[n].end = "none"
          /\ Falls(lastTick)[n].before.opacity = DropOpaque

---------------------------------------------------------------------------
(* Claims about a flower's whole life (SpecKindsFair) *)

Gap(f) == f.maxRadius - f.radius

InShape(f) ==
    /\ 0 <= f.radius
    /\ f.radius <= f.maxRadius
    /\ f.state # "withered" => f.opacity = FullLife

\* a flower is in shape from creation on; it leaves 'blooming' exactly in
\* the frame that brings the radius gap below 0.5, leaves 'alive' exactly in
\* the frame that brings its age above maxLife, then loses opacity in every
\* frame and is removed, with its stem, in the frame that brings it to <= 0
LifeStages ==
    [][/\ \A i \in 1..Len(flowers') : InShape(flowers'[i])
       /\ \A n \in 1..Len(Events(lastTick')) :
             LET ev == Events(lastTick')[n] IN
             /\ InShape(ev.before)
             /\ ev.before.state = "blooming" =>
                   /\ ev.after.radius >= ev.before.radius
                   /\ ev.after.state = "alive" <=> Gap(ev.after) < BloomEpsilon
             /\ ev.before.state = "alive" =>
                   /\ ev.after.life = ev.before.life + 1
                   /\ ev.after.state = "withered"
                         <=> ev.after.life > ev.after.maxLife
             /\ ev.before.state = "withered" =>
                   ev.after.opacity < ev.before.opacity
             /\ ev.removed <=> ev.before.state = "withered"
                                /\ ev.after.opacity <= 0
             /\ ev.removed =>
                   /\ ev.before.opacity > 0
                   /\ ev.before.id \notin FlowerIds(flowers')
                   /\ ev.before.stemId \in StemIds(stems)
                   /\ ev.before.stemId \notin StemIds(stems')]_vars

\* C20: if frames keep running every flower created at pointer-up is
\* eventually removed together with its stem: it leaves 'blooming' once the
\* radius gap to maxRadius is below 0.5, leaves 'alive' once its age exceeds
\* maxLife, and is removed after its opacity has decreased from 1 to <= 0;
\* throughout 0 <= radius <= maxRadius and opacity is 1 until it is withered.
C20_FlowerEventuallyRemoved ==
    /\ LifeStages
    /\ <>[](flowers = <<>>)
    /\ <>[](\A i \in 1..Len(stems) : ~stems[i].grown)

\* the frame that removed the last flower, fully bloomed and past its
\* maxLife, and left no grown stem
C20_Witness ==
    /\ \E n \in 1..Len(Events(lastTick)) :
          /\ Events(lastTick)[n].removed
          /\ Gap(Events(lastTick)[n].before) < BloomEpsilon
          /\ Events(lastTick)[n].before.life = Events(lastTick)[n].before.maxLife + 1
          /\ Events(lastTick)[n].after.opacity = 0
    /\ flowers = <<>>
    /\ \A i \in 1..Len(stems) : ~stems[i].grown

---------------------------------------------------------------------------
(* Claims about a particle's end (SpecParticles) *)

\* the particles the frame that just ran spliced out
Spliced(t) == IF t.kind = "tick" THEN t.lost ELSE <<>>

Flying(type) == \E i \in 1..Len(particles) : particles[i].type = type

OffSurface(p) == p.y > (canvas.h + ParticleMargin) * Unit

\* every stored particle is alive and decays
AllAlive ==
    \A i \in 1..Len(particles) :
        /\ particles[i].decay > 0
        /\ particles[i].life > 0
        /\ particles[i].life <= FullLife

\* a frame takes its decay off the life of every particle that is in the
\* store when the particle pass begins, splices out exactly those that
\* are then dead or off the surface, and keeps the others in their order
ParticlesDecay ==
    [][lastTick'.kind = "tick" =>
          \E smp \in ParticleDraws :
          \E atPass \in {particles \o Appended(lastTick'.hits, "added")
                                   \o Appended(lastTick'.evs, "emitted")} :
          \E moved \in {[i \in 1..Len(atPass) |->
                            AdvanceParticle(atPass[i], smp)]} :
             LET Ends(q) == q.life <= 0 \/ OffSurface(q)
                 Stays(q) == ~Ends(q)
             IN
             /\ \A i \in 1..Len(atPass) :
                   /\ atPass[i].decay > 0
                   /\ moved[i].life = atPass[i].life - atPass[i].decay
                   /\ moved[i].life < atPass[i].life
             /\ particles' = SelectSeq(moved, Stays)
             /\ lastTick'.lost = SelectSeq(moved, Ends)]_vars

\* C21: every particle is eventually removed: its life decreases by its
\* positive decay in every frame, it is removed in the first frame in which
\* its life is <= 0 or its y is more than 50 beyond the surface height, and
\* after every frame no particle with life <= 0 remains in the store.
C21_ParticleEventuallyRemoved ==
    /\ []AllAlive
    /\ ParticlesDecay
    /\ Flying("water") ~> ~Flying("water")
    /\ Flying("petal") ~> ~Flying("petal")

\* a frame that spliced out a particle whose life had run out and one that
\* was still alive but off the surface
C21_Witness ==
    /\ \E k \in 1..Len(Spliced(lastTick)) : Spliced(lastTick)[k].life <= 0
    /\ \E k \in 1..Len(Spliced(lastTick)) :
          Spliced(lastTick)[k].life > 0 /\ OffSurface(Spliced(lastTick)[k])

---------------------------------------------------------------------------
(* Claims about the alphas that are painted (SpecParticles, SpecRain) *)

InUnit64(x) == Leq64(Zero64, x) /\ Leq64(x, One64)

\* the tests of lines 379, 436 and 451 come out on the numbers the engine
\* holds as they do on the decimal fields
TestsAgree64 ==
    /\ \A i \in 1..Len(rainDrops) :
          Less64(DropOpacity64(rainDrops[i]), One64)
             <=> rainDrops[i].opacity < DropOpaque
    /\ \A i \in 1..Len(flowers) :
          /\ Leq64(FlowerOpacity64(flowers[i]), ShedThreshold64)
                <=> flowers[i].opacity <= ShedThreshold
          /\ Leq64(FlowerOpacity64(flowers[i]), Zero64)
                <=> flowers[i].opacity <= 0
    /\ \A n \in 1..Len(Events(lastTick)) :
          LET g == Events(lastTick)[n].after IN
          /\ Leq64(FlowerOpacity64(g), ShedThreshold64)
                <=> g.opacity <= ShedThreshold
          /\ Leq64(FlowerOpacity64(g), Zero64) <=> g.opacity <= 0

\* line 384: every raindrop of the pass is painted, after its fade step
DropAlphaInRange ==
    \A n \in 1..Len(Falls(lastTick)) :
        InUnit64(DropOpacity64(Falls(lastTick)[n].after))

\* line 459: every flower of the pass is painted after its step, the one
\* spliced out in this frame too
FlowerAlphaInRange ==
    \A n \in 1..Len(Events(lastTick)) :
        InUnit64(FlowerOpacity64(Events(lastTick)[n].after))

\* line 484: the particles the pass keeps are painted
ParticleAlphaInRange ==
    lastTick.kind = "tick" =>
        \A i \in 1..Len(particles) :
            particles[i].life > 0 /\ particles[i].life <= FullLife

\* C22: every opacity or life value is within [0,1] when it is used as an
\* alpha for painting: raindrop opacity rises from 0 in steps of 0.05 and
\* never passes 1, particle life is in (0,1] when painted, and flower
\* opacity is in [0,1] whenever the flower is painted, the paint call for a
\* flower removed in the same frame included.
C22_AlphaInRange ==
    /\ DropAlphaInRange
    /\ FlowerAlphaInRange
    /\ ParticleAlphaInRange

---------------------------------------------------------------------------
(* Claims about the stems left in the store (SpecDraw) *)

InProgress(st) == ~st.grown /\ isDrawing /\ st.id = currentStemId

Flowered(st) ==
    /\ st.grown
    /\ Cardinality({i \in 1..Len(flowers) : flowers[i].stemId = st.id}) = 1

\* C23: no stem is orphaned: in every state reachable by pointer-downs,
\* pointer-moves, pointer-ups and frames, two pointer-downs with no
\* pointer-up between them included, every stem in the store is either the
\* single stem in progress (not grown, named by the current stem id) or is
\* grown and has exactly one flower that names it.
C23_NoOrphanStem ==
    /\ \A i \in 1..Len(stems) : InProgress(stems[i]) \/ Flowered(stems[i])
    /\ Cardinality({i \in 1..Len(stems) : InProgress(stems[i])}) <= 1

---------------------------------------------------------------------------
(* Claims about a raindrop over the opening (SpecTall) *)

\* line 390: the drop's x is strictly inside the opening span
OverOpening(d) ==
    /\ d.x > (vase.x - VASE_OPENING_WIDTH \div 2) * Unit
    /\ d.x < (vase.x + VASE_OPENING_WIDTH \div 2) * Unit

\* the rim top is lower on the surface than the height drops start at
RimBelowStart == (vase.y - VASE_HEIGHT) * Unit > DropStartY

\* C24: a raindrop never passes through the vase opening undetected: with
\* the vase where it was during the whole fall and the rim top below the
\* height drops start at, a raindrop whose x is strictly inside the
\* opening span is never removed by leaving the bottom of the surface.
C24_NeverPassesOpening ==
    \A n \in 1..Len(Falls(lastTick)) :
        LET ev == Falls(lastTick)[n] IN
        RimBelowStart /\ OverOpening(ev.after) => ev.end # "bottom"

===========================================================================
